---- MODULE Spec2Model ----
(***************************************************************************)
(* A model of the FRC shooter physics module (src/simulation.py).          *)
(*                                                                         *)
(* The program computes in IEEE doubles; the model computes in integers    *)
(* with one consistent system of units, chosen so that the quantities the  *)
(* control flow compares are exact:                                        *)
(*   time      1 tick       = 0.002 s      (sim_dt = 1, dt = 2)            *)
(*   velocity  1 unit       = 2e-5 m/s                                     *)
(*   position  1 unit       = 4e-8 m       (= velocity unit * tick)        *)
(*   accel.    1 unit       = 1e-5 m/s^2   (1000 units * tick = 1 velocity *)
(*                                           unit)                         *)
(*   angle     1 unit       = 1e-6 rad                                     *)
(*   w         1 unit       = 0.001 RPM                                    *)
(*   C_D, C_L, C_roll       in thousandths                                 *)
(* Every intermediate value stays below 2^31.  Products that would not     *)
(* are formed piecewise (MulMicro, Ratio).                                  *)
(***************************************************************************)
EXTENDS Integers, Sequences, FiniteSets, TLC

\* ------------------------------------------------------------------
\* Integer arithmetic helpers
\* ------------------------------------------------------------------
Abs(x) == IF x < 0 THEN -x ELSE x

Sgn(x) == IF x < 0 THEN -1 ELSE IF x > 0 THEN 1 ELSE 0

Max2(a, b) == IF a >= b THEN a ELSE b

Min2(a, b) == IF a <= b THEN a ELSE b

\* a / b rounded toward zero.
Quot(a, b) == Sgn(a) * Sgn(b) * (Abs(a) \div Abs(b))

\* floor(a * b / 10^6) for a, b >= 0, formed from the thousands of a and b.
MulMicroN(a, b) ==
  LET ah == a \div 1000
      al == a % 1000
      bh == b \div 1000
      bl == b % 1000
  IN  ah * bh + ((ah * bl + al * bh + ((al * bl) \div 1000)) \div 1000)

\* a * b / 10^6 rounded toward zero.
MulMicro(a, b) == Sgn(a) * Sgn(b) * MulMicroN(Abs(a), Abs(b))

\* floor(a * 10^6 / b) for 0 <= a, 0 < b (a below 2 * 10^6), by long division.
RatioN(a, b) ==
  LET q1 == (a * 1000) \div b
      r1 == (a * 1000) % b
  IN  q1 * 1000 + ((r1 * 1000) \div b)

\* a / b in millionths, rounded toward zero.
Ratio(a, b) == Sgn(a) * Sgn(b) * RatioN(Abs(a), Abs(b))

RECURSIVE SqrtIter(_, _)
SqrtIter(n, x) ==
  LET y == (x + (n \div x)) \div 2
  IN  IF y >= x THEN x ELSE SqrtIter(n, y)

\* floor(sqrt(n)), by Newton's iteration from above.
ISqrt(n) ==
  IF n = 0 THEN 0
  ELSE IF n < 256 THEN SqrtIter(n, 16)
  ELSE IF n < 65536 THEN SqrtIter(n, 256)
  ELSE IF n < 16777216 THEN SqrtIter(n, 4096)
  ELSE SqrtIter(n, 46341)

\* m.sqrt(x**2 + y**2).  Exact floor for components below 2^15; above, on
\* the components' upper bits.  It is 0 exactly when both components are 0.
Hypot(x, y) ==
  LET ax == Abs(x)
      ay == Abs(y)
  IN  IF ax < 32768 /\ ay < 32768
      THEN ISqrt(ax * ax + ay * ay)
      ELSE 64 * ISqrt((ax \div 64) * (ax \div 64) + (ay \div 64) * (ay \div 64))

\* ------------------------------------------------------------------
\* math: pi, radians, cos, sin (angles in 1e-6 rad, values in millionths)
\* ------------------------------------------------------------------
PiMicro == 3141593

HalfPiMicro == 1570796

\* m.radians(angle_deg), angle_deg given in tenths of a degree.
radians(deg10) == MulMicro(deg10 * 1000, 1745329)

\* Taylor series in Horner form, for 0 <= x <= pi/2.
SinSeries(x) ==
  LET y  == MulMicroN(x, x)
      s6 == 1000000 - (y \div 156)
      s5 == 1000000 - (MulMicroN(y, s6) \div 110)
      s4 == 1000000 - (MulMicroN(y, s5) \div 72)
      s3 == 1000000 - (MulMicroN(y, s4) \div 42)
      s2 == 1000000 - (MulMicroN(y, s3) \div 20)
      s1 == 1000000 - (MulMicroN(y, s2) \div 6)
  IN  MulMicroN(x, s1)

CosSeries(x) ==
  LET y  == MulMicroN(x, x)
      c6 == 1000000 - (y \div 132)
      c5 == 1000000 - (MulMicroN(y, c6) \div 90)
      c4 == 1000000 - (MulMicroN(y, c5) \div 56)
      c3 == 1000000 - (MulMicroN(y, c4) \div 30)
      c2 == 1000000 - (MulMicroN(y, c3) \div 12)
  IN  1000000 - (MulMicroN(y, c2) \div 2)

\* m.sin / m.cos for -pi <= x <= pi, reduced to the first quadrant.
sin(x) ==
  LET ax == Abs(x)
      r  == IF ax > HalfPiMicro THEN PiMicro - ax ELSE ax
  IN  Sgn(x) * SinSeries(Max2(r, 0))

cos(x) ==
  LET ax == Abs(x)
  IN  IF ax > HalfPiMicro THEN -CosSeries(Max2(PiMicro - ax, 0)) ELSE CosSeries(ax)

\* ------------------------------------------------------------------
\* Field dimensions and physics constants (src/simulation.py:14-32)
\* ------------------------------------------------------------------
\* inches * 2.54 / 100 metres, in position units.
UnitsPerInch == 635000

L_x == 158611 * (UnitsPerInch \div 1000)

L_y == 318188 * (UnitsPerInch \div 1000)

W_H == 60 * UnitsPerInch

H_H == 60 * UnitsPerInch

H_H2 == (135 * UnitsPerInch) \div 10

R_1 == (25 * UnitsPerInch) \div 2

R_2 == (45 * UnitsPerInch) \div 2

\* 0.1 m
H_Shoot == 2500000

\* 9.81 m/s^2
g == 981000

\* (w / 60) * 2 * m.pi * R_w for w = 0.001 RPM, in millionths of a velocity unit.
SurfaceSpeedPerMilliRpm == 265988

\* 0.5 * p * A / m_ball = 0.015 * pi per metre, scaled to the model's units:
\* f_drag = DragK * 1e-6 * (C_D/1000) * (v^2 / 1e6) * 1000 acceleration units.
DragK == 1885
\* ------------------------------------------------------------------
\* Forces and the Euler step shared by the three integrators
\* ------------------------------------------------------------------
\* F_D / m_ball, F_D = 0.5 * C_D * p * A * v**2.
f_drag(v, C_D) == MulMicro(MulMicro(v, v) * C_D, DragK)

\* F_L / m_ball, F_L = 0.5 * p * A * R_b * w_b * v * C_L.  The spin rate w_b
\* is carried as the surface speed R_b * w_b, in velocity units.
f_lift(v, C_L, w_b) == MulMicro(MulMicro(w_b, v) * C_L, DragK)

\* A heading theta is carried as the pair (cos theta, sin theta), in
\* millionths: m.atan2(V_n, V_u) followed by m.cos / m.sin.
atan2(y, x) ==
  LET h == Hypot(x, y)
  IN  [c |-> Ratio(x, h), s |-> Ratio(y, h)]

ThetaZero == [c |-> 1000000, s |-> 0]

\* V_u + h * (cos(theta) * a_drag + cos(theta + pi/2) * a_lift)
StepV_u(V_u, h, theta, a_drag, a_lift) ==
  V_u + Quot(h * (MulMicro(a_drag, theta.c) + MulMicro(a_lift, -theta.s)), 1000)

\* V_n + h * (sin(theta) * a_drag + sin(theta + pi/2) * a_lift - g)
StepV_n(V_n, h, theta, a_drag, a_lift) ==
  V_n + Quot(h * (MulMicro(a_drag, theta.s) + MulMicro(a_lift, theta.c) - g), 1000)

\* "Initial conditions": V_s, V_b0, w_b, V_u0, V_n0 of a parameter record.
InitialConditions(p) ==
  LET V_s  == MulMicro(p.w, SurfaceSpeedPerMilliRpm)
      V_b0 == Quot(V_s * p.C_roll, 1000)
  IN  [V_s  |-> V_s,
       V_b0 |-> V_b0,
       w_b  |-> Quot(V_s * (1000 - p.C_roll), 1000),
       V_u0 |-> MulMicro(V_b0, cos(p.O_b)),
       V_n0 |-> MulMicro(V_b0, sin(p.O_b))]

target_height == H_H + H_H2 + H_Shoot

\* ------------------------------------------------------------------
\* The simulators' clock: t = 0; t += sim_dt, in double arithmetic.
\* sim_dt is the double nearest 0.002, K * 2^-61 with K = 4611686018427388.
\* A value of t is carried as [n, d]: t = (n * K + d) * 2^-61, n the number
\* of additions and d the rounding error accumulated so far.
\* ------------------------------------------------------------------
sim_dt == 1

\* K mod 2048
SimDtLowBits == 508

\* max_time = 3.0 = (MaxTimeTicks * K - MaxTimeSlack) * 2^-61
MaxTimeTicks == 1500

MaxTimeSlack == 144

TimeZero == [n |-> 0, d |-> 0]

\* The spacing of the doubles around m * K + d, in units of 2^-61:
\* 2^1 = (1000 * K - 96) * 2^-61, 2^0 = (500 * K - 48) * 2^-61, ...
FloatGrid(m, d) ==
  IF m > 1000 \/ (m = 1000 /\ d + 96 >= 0) THEN 1024
  ELSE IF m > 500 \/ (m = 500 /\ d + 48 >= 0) THEN 512
  ELSE IF m > 250 \/ (m = 250 /\ d + 24 >= 0) THEN 256
  ELSE IF m > 125 \/ (m = 125 /\ d + 12 >= 0) THEN 128
  ELSE IF m >= 63 THEN 64
  ELSE IF m >= 32 THEN 32
  ELSE IF m >= 16 THEN 16
  ELSE IF m >= 8 THEN 8
  ELSE IF m >= 4 THEN 4
  ELSE IF m >= 2 THEN 2
  ELSE 1

\* t + sim_dt, rounded to the nearest double (ties to even).
AddSimDt(t) ==
  LET m    == t.n + 1
      G    == FloatGrid(m, t.d)
      r2   == (m * SimDtLowBits + t.d) % (2 * G)
      r    == r2 % G
      down == t.d - r
      up   == t.d + (G - r)
  IN  [n |-> m,
       d |-> IF 2 * r < G THEN down
             ELSE IF 2 * r > G THEN up
             ELSE IF r2 >= G THEN up ELSE down]

\* t < max_time
BelowMaxTime(t) ==
  t.n < MaxTimeTicks \/ (t.n = MaxTimeTicks /\ t.d + MaxTimeSlack < 0)

\* ------------------------------------------------------------------
\* State
\* ------------------------------------------------------------------
VARIABLES
  pc,               \* position of the running call
  params,           \* the caller's parameter record
  target_distance,  \* argument of simulate_to_distance / calculate_optimal_angle
  test_params,      \* the record the running simulator was called with
  sim,              \* the running simulator's locals: V_u, V_n, N, U, t, ...
  result,           \* the simulator's return value
  hist,             \* history of the running simulator call (not program state)
  opt,              \* calculate_optimal_angle's locals (None when it is not running)
  opt_result,       \* calculate_optimal_angle's return value
  traj,             \* calculate_simulation's locals and return value
  variance,         \* arguments angle_variance_deg, rpm_variance_pct of calculate_impact_zone
  zone              \* calculate_impact_zone's locals and return value (None when not running)

vars == <<pc, params, target_distance, test_params, sim, result, hist, opt, opt_result, traj,
          variance, zone>>

None == [none |-> TRUE]

Some(x) == [some |-> x]

\* ------------------------------------------------------------------
\* Inputs
\* ------------------------------------------------------------------
Param(w, O_b, Z_sh, C_D, C_L, C_roll) ==
  [P_x |-> 13500000, P_y |-> 18250000, O_r |-> 0,
   w |-> w, O_b |-> O_b, Z_sh |-> Z_sh, C_D |-> C_D, C_L |-> C_L, C_roll |-> C_roll]

\* Z_sh = 0.15 m
ZshDefault == 3750000

ParamList ==
  << Param(2750000, radians(700), ZshDefault, 600, 0, 500),   \* config.py defaults
     Param(2750000, radians(450), ZshDefault, 0, 0, 500),     \* 45 degrees, no drag
     Param(0, radians(450), ZshDefault, 600, 0, 500),         \* flywheel at rest
     Param(6000000, radians(800), ZshDefault, 0, 0, 1000),    \* airborne for > 3 s
     Param(2750000, radians(600), ZshDefault, 600, 200, 500), \* drag and lift
     Param(8, radians(450), 0, 0, 0, 1000),                   \* released at ground level
     Param(2750000, radians(200), 62500000, 600, 0, 500),     \* released above the band
     Param(3000000, radians(650), ZshDefault, 300, 0, 500) >>

NumParams == 7

Inputs == { ParamList[i] : i \in 1..NumParams }

\* ------------------------------------------------------------------
\* test_params = params.copy()
\* ------------------------------------------------------------------
\* Variant: test_params = params, the same dict under a second name.
dict_alias(p) == [shared |-> TRUE, items |-> p]

\* params.copy(): a dict of its own holding the same items.
dict_copy(p) == [shared |-> FALSE, items |-> p]

\* The caller's record once the items of d have been overwritten to give tp:
\* untouched when d is a dict of its own.
AfterWrite(p, d, tp) == IF d.shared THEN tp ELSE p

\* ------------------------------------------------------------------
\* The Euler update of one loop iteration (speed V not zero)
\* ------------------------------------------------------------------
EulerUpdate(s, p, h) ==
  LET V      == Hypot(s.V_u, s.V_n)
      a_drag == -1 * f_drag(V, p.C_D)
      a_lift == f_lift(V, p.C_L, s.w_b)
      theta  == atan2(s.V_n, s.V_u)
      V_u1   == StepV_u(s.V_u, h, theta, a_drag, a_lift)
      V_n1   == StepV_n(s.V_n, h, theta, a_drag, a_lift)
  IN  [V_u |-> V_u1, V_n |-> V_n1,
       U |-> s.U + V_u1 * h, N |-> s.N + V_n1 * h, V |-> V]

\* The locals of a simulator after "Initial conditions" and N = Z_sh, U = 0, t = 0.
SimStart(p) ==
  LET ic == InitialConditions(p)
  IN  [V_u |-> ic.V_u0, V_n |-> ic.V_n0, N |-> p.Z_sh, U |-> 0, t |-> TimeZero,
       V |-> 0, w_b |-> ic.w_b, prev_N |-> p.Z_sh, prev_U |-> 0,
       passed_peak |-> FALSE]

\* "while t < max_time" is false, or "if V == 0: break" is taken.
LoopEnds(s) == ~BelowMaxTime(s.t) \/ Hypot(s.V_u, s.V_n) = 0

\* What a simulator call has done so far:
\*   steps    loop bodies executed
\*   t0       the value of t at which the latest one was admitted
\*   ground   N < 0 was left by a body before the latest one
\*   hit      some body left U >= target_distance with no N < 0 before it
\*   vn_neg   some body left V_n < 0
\*   crossed  a body before the latest one, with V_n < 0 seen by then, left
\*            prev_N >= target_height >= N
HistStart ==
  [steps |-> 0, t0 |-> TimeZero, ground |-> FALSE, hit |-> FALSE,
   vn_neg |-> FALSE, crossed |-> FALSE]

\* ------------------------------------------------------------------
\* find_impact_point(params)
\* ------------------------------------------------------------------
\* Variant: the ratio measured from the previous sample instead of the current one.
impact_U_FromPrevious(U, prev_U, N, prev_N) ==
  LET ratio == IF prev_N - N # 0 THEN Ratio(prev_N - target_height, prev_N - N) ELSE 0
  IN  U - MulMicro(ratio, U - prev_U)

\* ratio = (target_height - N) / (prev_N - N) if (prev_N - N) != 0 else 0;
\* impact_U = U - ratio * (U - prev_U)
impact_U(U, prev_U, N, prev_N) ==
  LET ratio == IF prev_N - N # 0 THEN Ratio(target_height - N, prev_N - N) ELSE 0
  IN  U - MulMicro(ratio, U - prev_U)

\* The two tests that end the loop body, in the code's order.
ImpactOutcome(passed_peak, prev_N, N) ==
  IF passed_peak /\ prev_N >= target_height /\ target_height >= N THEN "crossing"
  ELSE IF N < 0 THEN "ground"
  ELSE "continue"

\* return {'U': impact_U, 'N': target_height, 'time': t}
CrossingResult(U, prev_U, N, prev_N, t) ==
  [U |-> impact_U(U, prev_U, N, prev_N), N |-> target_height, time |-> t]

\* Variant: the ground-contact record carrying the integrated height.
GroundResult_RawHeight(U, N, t) == [U |-> U, N |-> N, time |-> t]

\* return {'U': U, 'N': 0, 'time': t}
GroundResult(U, N, t) == [U |-> U, N |-> 0, time |-> t]

CallFindImpactPoint ==
  /\ pc = "idle"
  /\ pc' = "fip_loop"
  /\ test_params' = params
  /\ sim' = SimStart(params)
  /\ result' = None
  /\ hist' = HistStart
  /\ UNCHANGED <<variance, zone, params, target_distance, opt, opt_result, traj>>

\* Where find_impact_point returns to: its caller's loop body, or the top level.
ImpactReturn == IF zone = None THEN "fip_done" ELSE "zone_collect"

\* One evaluation of "while t < max_time" and, when it admits it, the loop body.
FindImpactStep ==
  /\ pc = "fip_loop"
  /\ IF LoopEnds(sim)
     THEN /\ pc' = ImpactReturn
          /\ result' = None
          /\ UNCHANGED <<sim, hist>>
     ELSE LET e    == EulerUpdate(sim, test_params, sim_dt)
              t1   == AddSimDt(sim.t)
              peak == sim.passed_peak \/ e.V_n < 0
              out  == ImpactOutcome(peak, sim.N, e.N)
          IN  /\ sim' = [sim EXCEPT !.V_u = e.V_u, !.V_n = e.V_n, !.V = e.V,
                                    !.prev_U = sim.U, !.prev_N = sim.N,
                                    !.U = e.U, !.N = e.N, !.t = t1,
                                    !.passed_peak = peak]
              /\ hist' = [hist EXCEPT
                           !.steps = hist.steps + 1,
                           !.t0 = sim.t,
                           !.ground = hist.ground \/ (hist.steps > 0 /\ sim.N < 0),
                           !.vn_neg = hist.vn_neg \/ e.V_n < 0,
                           !.crossed = hist.crossed
                                       \/ (hist.steps > 0 /\ hist.vn_neg
                                           /\ sim.prev_N >= target_height
                                           /\ target_height >= sim.N)]
              /\ result' = IF out = "crossing"
                           THEN CrossingResult(e.U, sim.U, e.N, sim.N, t1)
                           ELSE IF out = "ground" THEN GroundResult(e.U, e.N, t1)
                           ELSE result
              /\ pc' = IF out = "continue" THEN "fip_loop" ELSE ImpactReturn
  /\ UNCHANGED <<variance, zone, params, target_distance, test_params, opt, opt_result, traj>>

\* def calculate_impact_zone(params, angle_variance_deg=2, rpm_variance_pct=3):
\* tenths of a degree and tenths of a percent.
DefaultVariance == [angle_variance_deg |-> 20, rpm_variance_pct |-> 30]

InitCommon ==
  /\ pc = "idle"
  /\ test_params = None
  /\ sim = None
  /\ result = None
  /\ hist = HistStart
  /\ opt = None
  /\ opt_result = None
  /\ traj = None
  /\ zone = None

InitFind ==
  /\ InitCommon
  /\ variance = DefaultVariance
  /\ params \in Inputs
  /\ target_distance = 0

NextFind == CallFindImpactPoint \/ FindImpactStep

SpecFind == InitFind /\ [][NextFind]_vars

\* ------------------------------------------------------------------
\* simulate_to_distance(params, target_distance)
\* ------------------------------------------------------------------
\* Variant: the ground test ahead of the distance test.
DistanceOutcome_GroundFirst(U, N, target) ==
  IF N < 0 THEN "ground"
  ELSE IF U >= target THEN "reached"
  ELSE "continue"

\* The two tests that end the loop body, in the code's order.
DistanceOutcome(U, N, target) ==
  IF U >= target THEN "reached"
  ELSE IF N < 0 THEN "ground"
  ELSE "continue"

\* return {'height': N, 'velocity': V, 'time': t, 'V_u': V_u, 'V_n': V_n}
DistanceResult(N, V, t, V_u, V_n) ==
  [height |-> N, velocity |-> V, time |-> t, V_u |-> V_u, V_n |-> V_n]

CallSimulateToDistance ==
  /\ pc = "idle"
  /\ pc' = "std_loop"
  /\ test_params' = params
  /\ sim' = SimStart(params)
  /\ result' = None
  /\ hist' = HistStart
  /\ UNCHANGED <<variance, zone, params, target_distance, opt, opt_result, traj>>

\* Where simulate_to_distance returns to.
DistanceReturn == IF opt = None THEN "std_done" ELSE "opt_collect"

\* One evaluation of "while t < max_time" and, when it admits it, the loop body.
DistanceStep ==
  /\ pc = "std_loop"
  /\ IF LoopEnds(sim)
     THEN /\ pc' = DistanceReturn
          /\ result' = None
          /\ UNCHANGED <<sim, hist>>
     ELSE LET e    == EulerUpdate(sim, test_params, sim_dt)
              t1   == AddSimDt(sim.t)
              out  == DistanceOutcome(e.U, e.N, target_distance)
              gnd  == hist.ground \/ (hist.steps > 0 /\ sim.N < 0)
          IN  /\ sim' = [sim EXCEPT !.V_u = e.V_u, !.V_n = e.V_n, !.V = e.V,
                                    !.U = e.U, !.N = e.N, !.t = t1]
              /\ hist' = [hist EXCEPT
                           !.steps = hist.steps + 1,
                           !.t0 = sim.t,
                           !.ground = gnd,
                           !.hit = hist.hit \/ (e.U >= target_distance /\ ~gnd)]
              /\ result' = IF out = "reached"
                           THEN DistanceResult(e.N, e.V, t1, e.V_u, e.V_n)
                           ELSE None
              /\ pc' = IF out = "continue" THEN "std_loop" ELSE DistanceReturn
  /\ UNCHANGED <<variance, zone, params, target_distance, test_params, opt, opt_result, traj>>

\* Target distances: 0, 0.5 m, 3.0 m, 20 m, 5.59 m (the last step of the 45 degree shot without
\* drag, on which it is already below ground level), 1.0 m
TargetList == << 0, 12500000, 75000000, 500000000, 139750000, 25000000 >>

NumTargets == 5

Targets == { TargetList[i] : i \in 1..NumTargets }

InitDist ==
  /\ InitCommon
  /\ variance = DefaultVariance
  /\ params \in Inputs
  /\ target_distance \in Targets

NextDist == CallSimulateToDistance \/ DistanceStep

SpecDist == InitDist /\ [][NextDist]_vars
\* ------------------------------------------------------------------
\* calculate_optimal_angle(params, target_distance)
\* ------------------------------------------------------------------
\* np.arange(start, stop, step): start + i * step for i < ceil((stop - start) / step)
np_arange(start, stop, step) ==
  [i \in 1..((stop - start + step - 1) \div step) |-> start + (i - 1) * step]

\* np.arange(20, 76, 0.5), in tenths of a degree
angle_sweep == np_arange(200, 760, 5)

\* float('inf'): above every error the model can form
Infinity == 2147483647

\* 0.15 m
SuccessTolerance == 3750000

\* Variant: a candidate of equal error replaces the best one.
Improves_OnTies(error, best_error) == error <= best_error

\* Variant: an error of exactly 0.15 m counts as success.
IsSuccess_Inclusive(best_error) == best_error <= SuccessTolerance

\* Variant: the failure record without the 45 degree fallback.
FailureRecord_NoFallback ==
  [optimal_angle_deg |-> 0, landing_height |-> 0, error |-> Infinity,
   velocity_at_target |-> 0, flight_time |-> TimeZero, success |-> FALSE,
   message |-> "Could not find valid trajectory"]

\* if error < best_error
Improves(error, best_error) == error < best_error

\* success = best_error < 0.15
IsSuccess(best_error) == best_error < SuccessTolerance

\* The record returned when best_angle is None.
FailureRecord ==
  [optimal_angle_deg |-> 450, landing_height |-> 0, error |-> Infinity,
   velocity_at_target |-> 0, flight_time |-> TimeZero, success |-> FALSE,
   message |-> "Could not find valid trajectory"]

\* The record returned when some candidate gave a result.
FoundRecord(best_angle, best_error, best_result) ==
  [optimal_angle_deg |-> best_angle, landing_height |-> best_result.height,
   error |-> best_error, velocity_at_target |-> best_result.velocity,
   flight_time |-> best_result.time, success |-> IsSuccess(best_error),
   message |-> IF IsSuccess(best_error) THEN "Optimal angle found!"
               ELSE "Target may not be reachable with current RPM"]

CallCalculateOptimalAngle ==
  /\ pc = "idle"
  /\ pc' = "opt_loop"
  /\ opt' = [i |-> 1, best_angle |-> None, best_error |-> Infinity,
             best_result |-> None, tried |-> << >>]
  /\ UNCHANGED <<variance, zone, params, target_distance, test_params, sim, result, hist, opt_result, traj>>

\* The head of the for loop with a candidate left: copy params, override O_b,
\* call simulate_to_distance.
OptNextCandidate ==
  /\ pc = "opt_loop"
  /\ opt.i <= Len(angle_sweep)
  /\ LET angle_rad == radians(angle_sweep[opt.i])
         d         == dict_copy(params)
         tp        == [d.items EXCEPT !.O_b = angle_rad]
     IN  /\ test_params' = tp
         /\ params' = AfterWrite(params, d, tp)
         /\ sim' = SimStart(tp)
  /\ result' = None
  /\ hist' = HistStart
  /\ pc' = "std_loop"
  /\ UNCHANGED <<variance, zone, target_distance, opt, opt_result, traj>>

\* The rest of the loop body, once simulate_to_distance has returned.
OptCollect ==
  /\ pc = "opt_collect"
  /\ LET angle_deg == angle_sweep[opt.i]
         error     == Abs(result.height - target_height)
         better    == result # None /\ Improves(error, opt.best_error)
     IN  opt' = [i |-> opt.i + 1,
                 best_angle  |-> IF better THEN Some(angle_deg) ELSE opt.best_angle,
                 best_error  |-> IF better THEN error ELSE opt.best_error,
                 best_result |-> IF better THEN result ELSE opt.best_result,
                 tried |-> Append(opt.tried, [angle |-> angle_deg, result |-> result])]
  /\ pc' = "opt_loop"
  /\ UNCHANGED <<variance, zone, params, target_distance, test_params, sim, result, hist, opt_result, traj>>

\* After the loop: the failure record, or the best candidate's.
OptFinish ==
  /\ pc = "opt_loop"
  /\ opt.i > Len(angle_sweep)
  /\ opt_result' = IF opt.best_angle = None THEN FailureRecord
                   ELSE FoundRecord(opt.best_angle.some, opt.best_error, opt.best_result)
  /\ pc' = "opt_done"
  /\ UNCHANGED <<variance, zone, params, target_distance, test_params, sim, result, hist, opt, traj>>

\* (parameter record, target distance) pairs the optimizer is run on
OptCaseList ==
  << <<ParamList[2], 75000000>>,                                 \* reachable at 3.0 m
     <<ParamList[1], 12500000>>,                                 \* 0.5 m: steepest is best
     <<ParamList[3], 25000000>>,                                 \* flywheel at rest
     <<Param(8, radians(450), 45423480, 0, 0, 1000), 0>>,        \* error exactly 0.15 m
     <<ParamList[5], 25000000>> >>

NumOptCases == 4

InitOpt ==
  /\ InitCommon
  /\ variance = DefaultVariance
  /\ \E c \in 1..NumOptCases :
       /\ params = OptCaseList[c][1]
       /\ target_distance = OptCaseList[c][2]

NextOpt == CallCalculateOptimalAngle \/ OptNextCandidate \/ DistanceStep
           \/ OptCollect \/ OptFinish

SpecOpt == InitOpt /\ [][NextOpt]_vars
\* ------------------------------------------------------------------
\* calculate_simulation(params)
\* ------------------------------------------------------------------
\* Time stamps are carried in units of 1/249500 s, in which both
\* dt = duration / n_steps and the spacing of np.linspace(0, duration, n_steps)
\* are whole numbers; 499 of these units make one tick of 0.002 s.
TimeUnitsPerSecond == 249500

TimeUnitsPerTick == 499

duration == 2 * TimeUnitsPerSecond

n_steps == 500

dt == duration \div n_steps

\* Variant: the interval divided in num parts, the end point left out.
np_linspace_NoEndpoint(start, stop, num) ==
  [i \in 1..num |-> start + ((i - 1) * (stop - start)) \div num]

\* np.linspace(start, stop, num): start + i * (stop - start) / (num - 1), i < num
np_linspace(start, stop, num) ==
  [i \in 1..num |-> start + ((i - 1) * (stop - start)) \div (num - 1)]

time == np_linspace(0, duration, n_steps)

\* floor(x * a / b) for x, a >= 0, formed from x's quotient and remainder by b.
MulDivSmall(x, a, b) == (x \div b) * a + (((x % b) * a) \div b)

\* v * t for a velocity v and a time stamp t: a length in position units.
TimesT(v, t) == Sgn(v) * MulDivSmall(Abs(v), t, TimeUnitsPerTick)

\* Variant: g * t**2, the factor 0.5 lost.
HalfGTSquared_NoHalf(t) ==
  MulDivSmall(MulDivSmall(g, t, TimeUnitsPerTick) \div 1000, t, TimeUnitsPerTick)

\* 0.5 * g * t**2
HalfGTSquared(t) ==
  MulDivSmall(MulDivSmall(g \div 2, t, TimeUnitsPerTick) \div 1000, t, TimeUnitsPerTick)

\* Variant: no clamp.
ClampGround_Off(N) == N

\* if N < 0: N = 0
ClampGround(N) == IF N < 0 THEN 0 ELSE N

\* 0.01 m
CrossingTolerance == 250000

\* abs(N - (H_H + H_H2 + H_Shoot)) < 0.01
InBand(N) == Abs(N - (H_H + H_H2 + H_Shoot)) < CrossingTolerance

\* Variant: a marker once set is kept.
MarkCrossing_KeepFirst(old, new) == IF old = None THEN new ELSE old

\* ideal_point = [iU_val, iN_val, t] inside the loop: the marker after a sample
\* inside the band, given the marker before it.
MarkCrossing(old, new) == new

\* Variant: the closed form without the launch height.
IdealN_FromGround(V_n0, Z_sh, t) == ClampGround(TimesT(V_n0, t) - HalfGTSquared(t))

\* Ideal height and distance at time stamp t.
IdealN(V_n0, Z_sh, t) == ClampGround(Z_sh + TimesT(V_n0, t) - HalfGTSquared(t))

IdealU(V_u0, t) == TimesT(V_u0, t)

\* Variant: the projection without the sine term, Y = P_y.
calculate_XYZ_fromPoints_NoSine(points, P_x, P_y, O_r) ==
  LET n == Len(points[1])
  IN  << [i \in 1..n |-> P_x + MulMicro(points[1][i], cos(O_r))],
         [i \in 1..n |-> P_y],
         [i \in 1..n |-> points[2][i]],
         points[3] >>

\* calculate_XYZ_fromPoints(points, P_x, P_y, O_r), points = [U_vals, N_vals, time]
calculate_XYZ_fromPoints(points, P_x, P_y, O_r) ==
  LET n == Len(points[1])
  IN  << [i \in 1..n |-> P_x + MulMicro(points[1][i], cos(O_r))],
         [i \in 1..n |-> P_y + MulMicro(points[1][i], sin(O_r))],
         [i \in 1..n |-> points[2][i]],
         points[3] >>

CallCalculateSimulation ==
  /\ pc = "idle"
  /\ pc' = "sim_ideal"
  /\ LET ic == InitialConditions(params)
     IN  traj' = [k |-> 1, w_b |-> ic.w_b, V_u0 |-> ic.V_u0, V_n0 |-> ic.V_n0,
                  iN_vals |-> << >>, iU_vals |-> << >>, ideal_point |-> None,
                  N_vals |-> << >>, U_vals |-> << >>, frIdealPoint |-> None,
                  V_u |-> ic.V_u0, V_n |-> ic.V_n0, N |-> params.Z_sh, U |-> 0,
                  raw_N |-> params.Z_sh,
                  iPoints_xyz |-> None, frPoints_xyz |-> None]
  /\ UNCHANGED <<variance, zone, params, target_distance, test_params, sim, result, hist, opt, opt_result>>

\* One iteration of the first "for t in time" loop.
IdealStep ==
  /\ pc = "sim_ideal"
  /\ LET t      == time[traj.k]
         iN_val == IdealN(traj.V_n0, params.Z_sh, t)
         iU_val == IdealU(traj.V_u0, t)
     IN  traj' = [traj EXCEPT
                    !.iN_vals = Append(@, iN_val),
                    !.iU_vals = Append(@, iU_val),
                    !.ideal_point = IF InBand(iN_val)
                                    THEN MarkCrossing(@, <<iU_val, iN_val, t>>)
                                    ELSE @,
                    !.k = IF traj.k = n_steps THEN 1 ELSE @ + 1]
  /\ pc' = IF traj.k = n_steps THEN "sim_drag" ELSE "sim_ideal"
  /\ UNCHANGED <<variance, zone, params, target_distance, test_params, sim, result, hist, opt, opt_result>>

\* One iteration of the second "for t in time" loop.
DragStep ==
  /\ pc = "sim_drag"
  /\ LET t      == time[traj.k]
         h      == dt \div TimeUnitsPerTick
         V      == Hypot(traj.V_u, traj.V_n)
         a_drag == IF V = 0 THEN 0 ELSE -1 * f_drag(V, params.C_D)
         a_lift == IF V = 0 THEN 0 ELSE f_lift(V, params.C_L, traj.w_b)
         theta  == IF V = 0 THEN ThetaZero ELSE atan2(traj.V_n, traj.V_u)
         V_u1   == StepV_u(traj.V_u, h, theta, a_drag, a_lift)
         V_n1   == StepV_n(traj.V_n, h, theta, a_drag, a_lift)
         U1     == traj.U + V_u1 * h
         raw    == traj.N + V_n1 * h
         N1     == ClampGround(raw)
     IN  traj' = [traj EXCEPT
                    !.V_u = V_u1, !.V_n = V_n1, !.U = U1, !.N = N1, !.raw_N = raw,
                    !.N_vals = Append(@, N1),
                    !.U_vals = Append(@, U1),
                    !.frIdealPoint = IF InBand(N1)
                                     THEN MarkCrossing(@, <<U1, N1, t>>)
                                     ELSE @,
                    !.k = @ + 1]
  /\ pc' = IF traj.k = n_steps THEN "sim_xyz" ELSE "sim_drag"
  /\ UNCHANGED <<variance, zone, params, target_distance, test_params, sim, result, hist, opt, opt_result>>

\* "Convert to 3D coords" and return.
ProjectAndReturn ==
  /\ pc = "sim_xyz"
  /\ traj' = [traj EXCEPT
                !.iPoints_xyz = calculate_XYZ_fromPoints(
                                  <<traj.iU_vals, traj.iN_vals, time>>,
                                  params.P_x, params.P_y, params.O_r),
                !.frPoints_xyz = calculate_XYZ_fromPoints(
                                   <<traj.U_vals, traj.N_vals, time>>,
                                   params.P_x, params.P_y, params.O_r)]
  /\ pc' = "sim_done"
  /\ UNCHANGED <<variance, zone, params, target_distance, test_params, sim, result, hist, opt, opt_result>>

InitSim ==
  /\ InitCommon
  /\ variance = DefaultVariance
  /\ params \in Inputs
  /\ target_distance = 0

NextSim == CallCalculateSimulation \/ IdealStep \/ DragStep \/ ProjectAndReturn

SpecSim == InitSim /\ [][NextSim]_vars
\* ------------------------------------------------------------------
\* calculate_impact_zone(params, angle_variance_deg, rpm_variance_pct)
\* ------------------------------------------------------------------
\* np.linspace(-v, v, 5)
GridSize == 5

GridCells == GridSize * GridSize

angle_variations == np_linspace(-variance.angle_variance_deg, variance.angle_variance_deg, GridSize)

rpm_variations == np_linspace(-variance.rpm_variance_pct, variance.rpm_variance_pct, GridSize)

\* The deltas of the i-th cell, the angle loop outside the rpm loop.
CellAngleDelta(i) == angle_variations[((i - 1) \div GridSize) + 1]

CellRpmDelta(i) == rpm_variations[((i - 1) % GridSize) + 1]

\* Variant: the angle delta taken as the angle, the base angle lost.
VariedParams_NoBaseAngle(p, angle_delta, rpm_delta) ==
  [p EXCEPT !.O_b = radians(angle_delta),
            !.w = p.w + Quot(p.w * rpm_delta, 1000)]

\* test_params['O_b'] = base_angle + m.radians(angle_delta)
\* test_params['w'] = base_rpm * (1 + rpm_delta / 100)
VariedParams(p, angle_delta, rpm_delta) ==
  [p EXCEPT !.O_b = p.O_b + radians(angle_delta),
            !.w = p.w + Quot(p.w * rpm_delta, 1000)]

\* m.sqrt(dx**2 + dy**2) for lengths in position units: as Hypot below 2^21,
\* above on the components' upper bits.
Dist(dx, dy) ==
  LET ax == Abs(dx)
      ay == Abs(dy)
  IN  IF ax < 2097152 /\ ay < 2097152
      THEN Hypot(ax, ay)
      ELSE 16384 * ISqrt((ax \div 16384) * (ax \div 16384) + (ay \div 16384) * (ay \div 16384))

\* (X, Y, Z) of an impact {'U': .., 'N': ..}
ImpactXYZ(impact, P_x, P_y, O_r) ==
  << P_x + MulMicro(impact.U, cos(O_r)), P_y + MulMicro(impact.U, sin(O_r)), impact.N >>

RECURSIVE SumQuot(_, _)
SumQuot(vals, n) ==
  IF vals = << >> THEN 0 ELSE (Head(vals) \div n) + SumQuot(Tail(vals), n)

RECURSIVE SumRem(_, _)
SumRem(vals, n) ==
  IF vals = << >> THEN 0 ELSE (Head(vals) % n) + SumRem(Tail(vals), n)

\* np.mean(vals), rounded down, summed without leaving 32 bits.
np_mean(vals) == SumQuot(vals, Len(vals)) + (SumRem(vals, Len(vals)) \div Len(vals))

Column(points, c) == [i \in 1..Len(points) |-> points[i][c]]

SeqMax(vals) == CHOOSE x \in { vals[i] : i \in 1..Len(vals) } : \A i \in 1..Len(vals) : vals[i] <= x

hub_x == L_x + (W_H \div 2)

hub_y == L_y \div 2

\* target_height = H_H + H_H2 inside calculate_impact_zone
zone_target_height == H_H + H_H2

\* 0.3 m
HeightTolerance == 7500000

\* height_ok and position_ok
InHub(point) ==
  /\ Abs(point[3] - zone_target_height) < HeightTolerance
  /\ Dist(point[1] - hub_x, point[2] - hub_y) < R_2

scoring_shots(points) == Cardinality({ i \in 1..Len(points) : InHub(points[i]) })

\* Variant: the share taken of the whole grid, not of the collected points.
Percentage_OfGrid(shots, total) == (shots * 10000) \div GridCells

\* (scoring_shots / len(impact_points)) * 100, in hundredths of a percent.
Percentage(shots, total) == (shots * 10000) \div total

\* Variant: the degenerate zone centred at the field origin.
DegenerateZone_AtOrigin(P_x, P_y) ==
  [center |-> <<0, 0, 0>>, radius |-> 0, points |-> << >>, in_target |-> FALSE,
   target_probability |-> 0, max_height |-> 0]

\* The record returned when no impact point was collected.
DegenerateZone(P_x, P_y) ==
  [center |-> <<P_x, P_y, 0>>, radius |-> 0, points |-> << >>, in_target |-> FALSE,
   target_probability |-> 0, max_height |-> 0]

\* The centroid of the collected points.
Centroid(points) ==
  << np_mean(Column(points, 1)), np_mean(Column(points, 2)), np_mean(Column(points, 3)) >>

\* Variant: in target as soon as one collected point scores.
in_target_AnyPoint(center, points) == scoring_shots(points) > 0

\* in_target = center_dist < R_2 and abs(center[2] - target_height) < 0.3
in_target(center, points) == InHub(center)

\* The record returned when impact_points is not empty.
ZoneRecord(points) ==
  LET center    == Centroid(points)
      distances == [i \in 1..Len(points) |->
                      Dist(points[i][1] - center[1], points[i][2] - center[2])]
  IN  [center |-> center,
       radius |-> SeqMax(distances),
       points |-> points,
       in_target |-> in_target(center, points),
       target_probability |-> Percentage(scoring_shots(points), Len(points)),
       max_height |-> SeqMax(Column(points, 3))]

CallCalculateImpactZone ==
  /\ pc = "idle"
  /\ pc' = "zone_loop"
  /\ zone' = [P_x |-> params.P_x, P_y |-> params.P_y, O_r |-> params.O_r,
              base_angle |-> params.O_b, base_rpm |-> params.w,
              i |-> 1, impact_points |-> << >>, cells |-> << >>, returned |-> None]
  /\ UNCHANGED <<variance, params, target_distance, test_params, sim, result, hist,
                 opt, opt_result, traj>>

\* The head of the inner loop with a cell left: copy params, override O_b and
\* w, call find_impact_point.
ZoneNextCell ==
  /\ pc = "zone_loop"
  /\ zone.i <= GridCells
  /\ LET d  == dict_copy(params)
         tp == VariedParams([d.items EXCEPT !.O_b = zone.base_angle, !.w = zone.base_rpm],
                            CellAngleDelta(zone.i), CellRpmDelta(zone.i))
     IN  /\ test_params' = tp
         /\ params' = AfterWrite(params, d, tp)
         /\ sim' = SimStart(tp)
  /\ result' = None
  /\ hist' = HistStart
  /\ pc' = "fip_loop"
  /\ UNCHANGED <<variance, zone, target_distance, opt, opt_result, traj>>

\* The rest of the loop body, once find_impact_point has returned; cells
\* keeps every cell's parameters and impact, None included.
ZoneCollect ==
  /\ pc = "zone_collect"
  /\ zone' = [zone EXCEPT
                !.i = @ + 1,
                !.impact_points =
                   IF result # None
                   THEN Append(@, ImpactXYZ(result, zone.P_x, zone.P_y, zone.O_r))
                   ELSE @,
                !.cells = Append(@, [params |-> test_params, impact |-> result])]
  /\ pc' = "zone_loop"
  /\ UNCHANGED <<variance, params, target_distance, test_params, sim, result, hist,
                 opt, opt_result, traj>>

\* After the loops: the degenerate zone, or the zone of the collected points.
ZoneFinish ==
  /\ pc = "zone_loop"
  /\ zone.i > GridCells
  /\ zone' = [zone EXCEPT
                !.returned = IF zone.impact_points = << >>
                             THEN DegenerateZone(zone.P_x, zone.P_y)
                             ELSE ZoneRecord(zone.impact_points)]
  /\ pc' = "zone_done"
  /\ UNCHANGED <<variance, params, target_distance, test_params, sim, result, hist,
                 opt, opt_result, traj>>

\* A parameter record at another field position and heading.
ParamAt(P_x, P_y, O_r, p) == [p EXCEPT !.P_x = P_x, !.P_y = P_y, !.O_r = O_r]

NoVariance == [angle_variance_deg |-> 0, rpm_variance_pct |-> 0]

\* (parameter record, variances) pairs the impact zone is computed for
ZoneCaseList ==
  << <<ParamAt(63500000, 101000000, 0, ParamList[1]), DefaultVariance>>,  \* aimed at the hub
     <<ParamList[1], NoVariance>>,                                        \* no variance
     <<ParamList[3], DefaultVariance>>,                                   \* flywheel at rest
     <<ParamList[4], NoVariance>>,                                        \* airborne for > 3 s
     <<ParamAt(11600000, 87172540, 0,                                     \* some cells fall short,
               Param(3120000, radians(550), ZshDefault, 600, 0, 500)),    \*   line near the rim
       [angle_variance_deg |-> 20, rpm_variance_pct |-> 100]>>,
     <<ParamAt(82750000, 101000000, 0,                                    \* most cells fall short
               Param(2450000, radians(700), ZshDefault, 600, 0, 500)),
       DefaultVariance>>,
     <<ParamAt(13475000, 11837500, radians(400),                          \* some cells airborne
               Param(3500000, radians(800), ZshDefault, 600, 0, 1000)),   \*   for > 3 s
       DefaultVariance>>,
     <<ParamAt(13500000, 18250000, radians(300), ParamList[5]), DefaultVariance>> >>

NumZoneCases == 7

InitZone ==
  /\ InitCommon
  /\ target_distance = 0
  /\ \E c \in 1..NumZoneCases :
       /\ params = ZoneCaseList[c][1]
       /\ variance = ZoneCaseList[c][2]

NextZone == CallCalculateImpactZone \/ ZoneNextCell \/ FindImpactStep
            \/ ZoneCollect \/ ZoneFinish

SpecZone == InitZone /\ [][NextZone]_vars
\* ------------------------------------------------------------------
\* Any sequence of calls on one parameter record
\* ------------------------------------------------------------------
\* A call has returned; its locals are gone, the caller's record stays.
Return ==
  /\ pc \in {"fip_done", "std_done", "opt_done", "sim_done", "zone_done"}
  /\ pc' = "idle"
  /\ test_params' = None
  /\ sim' = None
  /\ result' = None
  /\ hist' = HistStart
  /\ opt' = None
  /\ opt_result' = None
  /\ traj' = None
  /\ zone' = None
  /\ UNCHANGED <<params, target_distance, variance>>

\* (parameter record, target distance, variances) the calls are made with
CallCaseList ==
  << <<ParamList[1], 12500000, DefaultVariance>>,
     <<ParamList[3], 25000000, DefaultVariance>>,
     <<ParamList[5], 25000000, DefaultVariance>> >>

NumCallCases == 2

InitCalls ==
  /\ InitCommon
  /\ \E c \in 1..NumCallCases :
       /\ params = CallCaseList[c][1]
       /\ target_distance = CallCaseList[c][2]
       /\ variance = CallCaseList[c][3]

NextCalls == NextFind \/ NextDist \/ NextOpt \/ NextSim \/ NextZone \/ Return

SpecCalls == InitCalls /\ [][NextCalls]_vars
\* ==================================================================
\* Claims
\* ==================================================================
\* Candidates tried so far that gave a result, and the height error of one.
OptOk == { j \in 1..Len(opt.tried) : opt.tried[j].result # None }

OptErr(j) == Abs(opt.tried[j].result.height - target_height)

\* The first candidate among those of least error.
OptArgMin ==
  CHOOSE j \in OptOk : \A i \in OptOk : OptErr(j) < OptErr(i) \/ (OptErr(j) = OptErr(i) /\ j <= i)

\* C1 (as claimed): calculate_optimal_angle evaluates exactly the 111 angles
\* 20.0, 20.5, ..., 75.0 degrees, nothing above 75, so a returned
\* optimal_angle_deg found by the sweep lies in [20, 75] degrees.
C1_SweepIs20To75 ==
  pc = "opt_done" =>
    /\ Len(opt.tried) = 111
    /\ \A j \in 1..Len(opt.tried) : opt.tried[j].angle >= 200 /\ opt.tried[j].angle <= 750
    /\ (OptOk # {} => opt_result.optimal_angle_deg >= 200 /\ opt_result.optimal_angle_deg <= 750)

\* Samples of a track inside the tolerance band.
BandSamples(N_vals) == { k \in 1..Len(N_vals) : InBand(N_vals[k]) }

SetMax(S) == CHOOSE x \in S : \A y \in S : y <= x

SetMin(S) == CHOOSE x \in S : \A y \in S : x <= y

SampleAt(U_vals, N_vals, k) == <<U_vals[k], N_vals[k], time[k]>>

\* C2 (amended): on each track the reported crossing point is the LAST stored
\* sample, in time order, whose height is within 0.01 m of the band; it is
\* absent exactly when no stored sample is inside the tolerance.
C2_CrossingIsLastInBand ==
  traj # None =>
    /\ traj.ideal_point =
         IF BandSamples(traj.iN_vals) = {} THEN None
         ELSE SampleAt(traj.iU_vals, traj.iN_vals, SetMax(BandSamples(traj.iN_vals)))
    /\ traj.frIdealPoint =
         IF BandSamples(traj.N_vals) = {} THEN None
         ELSE SampleAt(traj.U_vals, traj.N_vals, SetMax(BandSamples(traj.N_vals)))

\* C2 (as claimed): the reported crossing point is the FIRST sample inside the
\* tolerance; later samples inside it never replace it.
C2_CrossingIsFirstInBand ==
  pc = "sim_done" =>
    /\ traj.ideal_point =
         IF BandSamples(traj.iN_vals) = {} THEN None
         ELSE SampleAt(traj.iU_vals, traj.iN_vals, SetMin(BandSamples(traj.iN_vals)))
    /\ traj.frIdealPoint =
         IF BandSamples(traj.N_vals) = {} THEN None
         ELSE SampleAt(traj.U_vals, traj.N_vals, SetMin(BandSamples(traj.N_vals)))

\* C2 witness: a finished run with several samples inside the band on both tracks.
C2_SeveralSamplesInBand ==
  /\ pc = "sim_done"
  /\ Cardinality(BandSamples(traj.iN_vals)) > 1
  /\ Cardinality(BandSamples(traj.N_vals)) > 1
  /\ traj.ideal_point # None
  /\ traj.frIdealPoint # None

\* C3 (as claimed): find_impact_point returns None only once the 3.0 s budget
\* is exhausted; never while t is still below max_time.
C3_NoneOnlyAfterBudget ==
  (pc = "fip_done" /\ result = None) => ~BelowMaxTime(sim.t)

\* C4: simulate_to_distance returns a result exactly when some executed loop
\* body leaves U >= target_distance with no body before it having left N < 0
\* (each body is admitted with t < max_time); height and time returned are
\* those of that very step; otherwise it returns None.
C4_ResultIffDistanceReached ==
  pc = "std_done" =>
    /\ (result # None) <=> hist.hit
    /\ result # None =>
         /\ hist.steps > 0
         /\ ~hist.ground
         /\ BelowMaxTime(hist.t0)
         /\ sim.U >= target_distance
         /\ result.height = sim.N
         /\ result.time = sim.t
         /\ sim.t = AddSimDt(hist.t0)

\* C4 witness: a result returned after more than one step.
C4_ReachedAfterSeveralSteps ==
  pc = "std_done" /\ result # None /\ hist.steps > 1 /\ sim.U >= target_distance

\* C5: when some candidate gives a result, the optimizer returns the candidate
\* of least |height - target_height| among all those that gave one (the lowest
\* angle on ties) and reports that candidate's height, error, speed and time,
\* whether or not success is true; every angle of the sweep has been tried.
C5_BestIsFirstArgMin ==
  (pc = "opt_done" /\ OptOk # {}) =>
    /\ Len(opt.tried) = Len(angle_sweep)
    /\ \A j \in 1..Len(opt.tried) : opt.tried[j].angle = angle_sweep[j]
    /\ opt_result.optimal_angle_deg = opt.tried[OptArgMin].angle
    /\ opt_result.landing_height = opt.tried[OptArgMin].result.height
    /\ opt_result.error = OptErr(OptArgMin)
    /\ opt_result.velocity_at_target = opt.tried[OptArgMin].result.velocity
    /\ opt_result.flight_time = opt.tried[OptArgMin].result.time

\* C5 witness: an unsuccessful search whose least error is shared by several
\* candidates, the best of which is not the first candidate tried.
C5_TieAmongCandidates ==
  /\ pc = "opt_done"
  /\ OptOk # {}
  /\ ~opt_result.success
  /\ OptArgMin > 1
  /\ \E j \in OptOk : j > OptArgMin /\ OptErr(j) = OptErr(OptArgMin)

\* C6: success is true exactly when some candidate gave a result and the
\* least height error is strictly below 0.15 m.
C6_SuccessIffErrorBelowTolerance ==
  pc = "opt_done" =>
    (opt_result.success <=> (OptOk # {} /\ OptErr(OptArgMin) < SuccessTolerance))

\* C6 witness: a search whose least error is exactly 0.15 m.
C6_ErrorExactlyTolerance ==
  /\ pc = "opt_done"
  /\ OptOk # {}
  /\ OptErr(OptArgMin) = SuccessTolerance
  /\ ~opt_result.success

\* C7 (amended): when no candidate gives a result the optimizer returns
\* optimal_angle_deg = 45, success = false, landing_height, velocity_at_target
\* and flight_time zero, and error = infinity.
C7_FailureRecordErrorInfinite ==
  (pc = "opt_done" /\ OptOk = {}) =>
    /\ opt_result.optimal_angle_deg = 450
    /\ opt_result.success = FALSE
    /\ opt_result.landing_height = 0
    /\ opt_result.velocity_at_target = 0
    /\ opt_result.flight_time = TimeZero
    /\ opt_result.error = Infinity

\* C7 (as claimed): ... and all of landing_height, error, velocity_at_target
\* and flight_time are zero.
C7_FailureRecordAllZero ==
  (pc = "opt_done" /\ OptOk = {}) =>
    /\ opt_result.optimal_angle_deg = 450
    /\ opt_result.success = FALSE
    /\ opt_result.landing_height = 0
    /\ opt_result.error = 0
    /\ opt_result.velocity_at_target = 0
    /\ opt_result.flight_time = TimeZero

\* C7 witness: the sweep is over and no candidate gave a result.
C7_NoCandidateGaveResult ==
  pc = "opt_done" /\ OptOk = {} /\ Len(opt.tried) = Len(angle_sweep)

\* The latest loop body of find_impact_point left prev_N >= target_height >= N
\* with V_n < 0 seen by then.
BracketsNow == hist.vn_neg /\ sim.prev_N >= target_height /\ target_height >= sim.N

\* C8: a reported target-height crossing is at the first step, with V_n < 0
\* seen at least once, at which prev_N >= target_height >= N; its height is
\* target_height exactly; its distance divides [prev_U, U] as target_height
\* divides [prev_N, N] (linear interpolation), so lies between prev_U and U
\* inclusive, and is U when the two heights are equal.
C8_CrossingIsFirstBracketInterpolated ==
  (pc = "fip_done" /\ result # None /\ result.N = target_height) =>
    /\ BracketsNow
    /\ ~hist.crossed
    /\ result.time = sim.t
    /\ result.U >= Min2(sim.prev_U, sim.U)
    /\ result.U <= Max2(sim.prev_U, sim.U)
    /\ sim.prev_N = sim.N => result.U = sim.U
    /\ sim.prev_U = sim.U => result.U = sim.U
    /\ (sim.prev_N # sim.N /\ sim.prev_U # sim.U) =>
         Abs(RatioN(Abs(sim.U - result.U), Abs(sim.U - sim.prev_U))
             - RatioN(target_height - sim.N, sim.prev_N - sim.N))
           <= 1 + (1000000 \div Abs(sim.U - sim.prev_U))

\* C8 witness: a crossing reported strictly inside the bracketing step.
C8_CrossingInsideStep ==
  /\ pc = "fip_done"
  /\ result # None
  /\ result.N = target_height
  /\ sim.prev_N > target_height
  /\ target_height > sim.N
  /\ result.U > sim.prev_U
  /\ result.U < sim.U

\* C9: a step that leaves N < 0 with no crossing found at or before it ends
\* the call with the ground-contact point (that step's U, height 0); hence a
\* result's height is target_height or 0, never negative.
C9_GroundContactAtZero ==
  /\ (pc \in {"fip_loop", "fip_done"} /\ hist.steps > 0 /\ sim.N < 0
        /\ ~hist.crossed /\ ~BracketsNow) =>
       (pc = "fip_done" /\ result = [U |-> sim.U, N |-> 0, time |-> sim.t])
  /\ (pc = "fip_done" /\ result # None) => result.N \in {target_height, 0}

\* C9 witness: the ball fell below ground without a crossing.
C9_FellBelowGround ==
  pc = "fip_done" /\ hist.steps > 1 /\ sim.N < 0 /\ result # None /\ result.N = 0

\* Heights stored so far, over the tracks and their projections.
StoredHeights ==
  { traj.iN_vals[k] : k \in 1..Len(traj.iN_vals) }
    \cup { traj.N_vals[k] : k \in 1..Len(traj.N_vals) }
    \cup (IF traj.iPoints_xyz = None THEN {}
          ELSE { traj.iPoints_xyz[3][k] : k \in 1..Len(traj.iPoints_xyz[3]) })
    \cup (IF traj.frPoints_xyz = None THEN {}
          ELSE { traj.frPoints_xyz[3][k] : k \in 1..Len(traj.frPoints_xyz[3]) })

\* C10: no stored sample of the ideal track, the drag track or their 3D
\* projections has height below zero; a drag step whose integration takes
\* the height negative stores 0 for that sample.
C10_NoStoredHeightBelowZero ==
  traj # None =>
    /\ \A z \in StoredHeights : z >= 0
    /\ (traj.N_vals # << >> /\ traj.raw_N < 0) => traj.N_vals[Len(traj.N_vals)] = 0

\* C10 witness: a finished run in which both tracks were clamped.
C10_ClampedSamples ==
  /\ pc = "sim_done"
  /\ traj.raw_N < 0
  /\ traj.N_vals[n_steps] = 0
  /\ traj.iN_vals[n_steps] = 0
  /\ traj.frPoints_xyz[3][n_steps] = 0
  /\ \E k \in 1..n_steps : traj.N_vals[k] > 0

\* The time stamps returned with a track.
TrackTimes(xyz) == xyz[4]

TimesSpanDuration(ts) ==
  /\ Len(ts) = 500
  /\ ts[1] = 0
  /\ ts[500] = 2 * TimeUnitsPerSecond
  /\ \A k \in 1..500 : ts[k] >= 0
  /\ \A k \in 1..499 : ts[k] <= ts[k + 1]

\* C11: the ideal and the drag-affected sequence returned by
\* calculate_simulation have exactly 500 samples each (the drag loop goes on
\* after ground contact); their time stamps are non-negative, non-decreasing,
\* start at 0 and end at exactly 2.0 s.
C11_FiveHundredSamplesSpanDuration ==
  pc = "sim_done" =>
    /\ Len(traj.iU_vals) = 500 /\ Len(traj.iN_vals) = 500
    /\ Len(traj.U_vals) = 500 /\ Len(traj.N_vals) = 500
    /\ \A c \in 1..3 : Len(traj.iPoints_xyz[c]) = 500 /\ Len(traj.frPoints_xyz[c]) = 500
    /\ TimesSpanDuration(TrackTimes(traj.iPoints_xyz))
    /\ TimesSpanDuration(TrackTimes(traj.frPoints_xyz))

\* C11 witness: a finished run whose drag track touched the ground well
\* before the last sample.
C11_FullLengthAfterGroundContact ==
  /\ pc = "sim_done"
  /\ Len(traj.N_vals) = 500
  /\ \E k \in 2..400 : traj.N_vals[k - 1] > 0 /\ traj.N_vals[k] = 0
  /\ TrackTimes(traj.frPoints_xyz)[500] = 2 * TimeUnitsPerSecond

\* One step dt in ticks, the fall speed gained over the whole duration
\* (velocity units), and the slack left for the rounding of the units.
DtTicks == dt \div TimeUnitsPerTick

FallSpeedOverDuration == (g \div 1000) * (duration \div TimeUnitsPerTick)

RoundingSlack == 500 * DtTicks

\* Bounds proportional to dt on the distance between the Euler track and the
\* closed form: the stamps of sample k differ by at most dt, over which the
\* ball moves at most its greatest speed times dt, and the Euler sum lags the
\* closed-form fall by g * T * dt / 2.
EulerBoundU == DtTicks * Abs(traj.V_u0) + RoundingSlack

EulerBoundN ==
  DtTicks * (Abs(traj.V_n0) + FallSpeedOverDuration)
    + (DtTicks * FallSpeedOverDuration) \div 2 + RoundingSlack

\* C12: with C_D = 0 and C_L = 0 the drag-affected sequence matches the ideal
\* sequence at every index, first sample and samples after ground contact
\* included, within a bound proportional to dt.
C12_ZeroDragMatchesIdeal ==
  (traj # None /\ params.C_D = 0 /\ params.C_L = 0) =>
    \A k \in 1..Len(traj.N_vals) :
      /\ Abs(traj.U_vals[k] - traj.iU_vals[k]) <= EulerBoundU
      /\ Abs(traj.N_vals[k] - traj.iN_vals[k]) <= EulerBoundN

\* C12 witness: a finished zero-drag run of a moving ball that reached the
\* ground on both tracks, the Euler track one sample or more ahead of the
\* closed form, and whose first samples differ.
C12_ZeroDragRunToGround ==
  /\ pc = "sim_done"
  /\ params.C_D = 0 /\ params.C_L = 0
  /\ traj.V_u0 > 0 /\ traj.V_n0 > 0
  /\ \E k \in 2..(n_steps - 1) :
       /\ traj.N_vals[k] = 0 /\ traj.iN_vals[k] > 0
       /\ traj.N_vals[k - 1] > 0
  /\ traj.N_vals[n_steps] = 0 /\ traj.iN_vals[n_steps] = 0
  /\ \E k \in 1..n_steps : traj.N_vals[k] # traj.iN_vals[k]
  /\ traj.U_vals[1] # traj.iU_vals[1]

\* The scenario of C13: w = 2750, O_b = 45 degrees, Z_sh = 0.15, no drag, no
\* lift, C_roll = 0.5.
ScenarioParams == Param(2750000, radians(450), ZshDefault, 0, 0, 500)

\* Index of the first ideal sample, after the first, whose height is zero.
FirstIdealZero == SetMin({ k \in 2..Len(traj.iN_vals) : traj.iN_vals[k] = 0 })

\* A time v / g, v in velocity units, as a time stamp.
SpeedOverG(v) == MulDivSmall(v, TimeUnitsPerTick, g \div 1000)

\* sqrt(2 * g * Z_sh) in velocity units, from g in 0.01 m/s^2 and Z_sh in 0.1 mm.
FallSpeedFrom(Z_sh) == 50 * ISqrt(2 * (g \div 1000) * (Z_sh \div 2500))

\* The spacing of the stored time stamps, the wider of the two step widths.
StepWidth == time[2] - time[1]

\* C13 (amended): in the scenario the first ideal sample whose height has
\* returned to zero is stamped within one step width of
\* (V_n0 + sqrt(V_n0^2 + 2 g Z_sh)) / g, the closed form's landing time from
\* the launch height Z_sh = 0.15 m (about 1.083 s).
C13_ZeroAtLandingTimeFromLaunchHeight ==
  (pc = "sim_done" /\ params = ScenarioParams) =>
    /\ \E k \in 2..n_steps : traj.iN_vals[k] = 0
    /\ traj.iN_vals[FirstIdealZero - 1] > 0
    /\ Abs(time[FirstIdealZero]
           - SpeedOverG(traj.V_n0 + Hypot(traj.V_n0, FallSpeedFrom(params.Z_sh))))
         <= StepWidth

\* C13 (as claimed): ... is stamped within one step width of 2 * V_n0 / g
\* (about 1.054 s).
C13_ZeroAtTwiceVn0OverG ==
  (pc = "sim_done" /\ params = ScenarioParams) =>
    /\ \E k \in 2..n_steps : traj.iN_vals[k] = 0
    /\ Abs(time[FirstIdealZero] - SpeedOverG(2 * traj.V_n0)) <= StepWidth

\* C13 witness: the scenario has run and its ideal track came back to zero.
C13_ScenarioLanded ==
  /\ pc = "sim_done"
  /\ params = ScenarioParams
  /\ traj.V_n0 > 0
  /\ \E k \in 2..n_steps : traj.iN_vals[k] = 0 /\ traj.iN_vals[k - 1] > 0

\* The points of a returned zone, as a set.
ZonePointSet == { zone.returned.points[i] : i \in 1..Len(zone.returned.points) }

\* Every one of the 25 cells has been run, each with the base parameters.
AllCellsRunWithBase ==
  /\ Len(zone.cells) = 25
  /\ \A i \in 1..25 : zone.cells[i].params = params

\* C14 (amended): with both variances 0 all 25 cells run with the base
\* parameters; when find_impact_point gives a result for them the zone holds
\* 25 copies of one point, its centre is that point and its radius is 0; when
\* it gives None no point is collected and the zone is the degenerate one.
C14_ZeroVarianceOnePointOrNone ==
  (pc = "zone_done" /\ variance = NoVariance) =>
    /\ AllCellsRunWithBase
    /\ \A i \in 1..25 : zone.cells[i].impact = zone.cells[1].impact
    /\ IF zone.cells[1].impact = None
       THEN /\ zone.returned.points = << >>
            /\ zone.returned.center = <<params.P_x, params.P_y, 0>>
            /\ zone.returned.radius = 0
       ELSE /\ Len(zone.returned.points) = 25
            /\ Cardinality(ZonePointSet) = 1
            /\ zone.returned.center \in ZonePointSet
            /\ zone.returned.radius = 0

\* C14 (as claimed): with both variances 0 the zone always contains exactly
\* one distinct point, its centre is that point and its radius is 0.
C14_ZeroVarianceExactlyOnePoint ==
  (pc = "zone_done" /\ variance = NoVariance) =>
    /\ AllCellsRunWithBase
    /\ Cardinality(ZonePointSet) = 1
    /\ zone.returned.center \in ZonePointSet
    /\ zone.returned.radius = 0

\* C14 witness: a zero-variance zone of 25 coinciding points.
C14_TwentyFiveCoincidingPoints ==
  /\ pc = "zone_done"
  /\ variance = NoVariance
  /\ Len(zone.returned.points) = 25
  /\ Cardinality(ZonePointSet) = 1
  /\ zone.returned.points[1][3] = target_height
  /\ zone.returned.radius = 0

\* C15: when find_impact_point returns None for every one of the 25 cells,
\* calculate_impact_zone returns the degenerate zone: centre (P_x, P_y, 0),
\* radius 0, no points, in_target false, target_probability 0, max_height 0.
C15_NoImpactGivesDegenerateZone ==
  (pc = "zone_done" /\ \A i \in 1..Len(zone.cells) : zone.cells[i].impact = None) =>
    /\ Len(zone.cells) = 25
    /\ zone.returned.center = <<params.P_x, params.P_y, 0>>
    /\ zone.returned.radius = 0
    /\ zone.returned.points = << >>
    /\ zone.returned.in_target = FALSE
    /\ zone.returned.target_probability = 0
    /\ zone.returned.max_height = 0

\* C15 witness: a zone computed with varied cells in which every cell came
\* back with None.
C15_EveryCellNone ==
  /\ pc = "zone_done"
  /\ Len(zone.cells) = 25
  /\ \A i \in 1..25 : zone.cells[i].impact = None
  /\ variance # NoVariance
  /\ zone.returned.points = << >>

\* The dual test of the hub, written out: planar distance to the hub centre
\* below R_2 and height within 0.3 m of H_H + H_H2.
PassesDualTest(q) ==
  /\ Dist(q[1] - (L_x + (W_H \div 2)), q[2] - (L_y \div 2)) < R_2
  /\ Abs(q[3] - (H_H + H_H2)) < 7500000

PointsPassing == { i \in 1..Len(zone.returned.points) : PassesDualTest(zone.returned.points[i]) }

CellsWithImpact == { i \in 1..Len(zone.cells) : zone.cells[i].impact # None }

\* C16: with at least one point collected, target_probability is 100 times
\* the number of collected points passing the dual test over the number of
\* collected points (here in hundredths of a percent, rounded down); it lies
\* between 0 and 100 and between 1 and 25 points are collected.
C16_ProbabilityIsShareOfCollected ==
  (pc = "zone_done" /\ zone.returned.points # << >>) =>
    LET n == Len(zone.returned.points)
        k == Cardinality(PointsPassing)
        P == zone.returned.target_probability
    IN  /\ n >= 1 /\ n <= 25
        /\ n = Cardinality(CellsWithImpact)
        /\ P >= 0 /\ P <= 10000
        /\ n * P <= 10000 * k
        /\ 10000 * k < n * (P + 1)

\* C16 witness: fewer than 25 points collected, some passing and some not.
C16_PartOfFewerThan25Passing ==
  /\ pc = "zone_done"
  /\ Len(zone.returned.points) > 1
  /\ Len(zone.returned.points) < 25
  /\ Cardinality(PointsPassing) > 0
  /\ Cardinality(PointsPassing) < Len(zone.returned.points)
  /\ zone.returned.target_probability > 0
  /\ zone.returned.target_probability < 10000

RECURSIVE SumOver(_, _)
\* The sum of vals[i] - c.
SumOver(vals, c) == IF vals = << >> THEN 0 ELSE (Head(vals) - c) + SumOver(Tail(vals), c)

\* c is the mean of vals rounded down.
IsFloorMean(c, vals) == SumOver(vals, c) >= 0 /\ SumOver(vals, c) < Len(vals)

\* C17: in_target is the dual test applied to the centroid of the collected
\* points (the per-axis mean), whatever the individual points do; it is false
\* for the degenerate zone.
C17_InTargetIsCentroidTest ==
  pc = "zone_done" =>
    IF zone.returned.points = << >>
    THEN zone.returned.in_target = FALSE
    ELSE /\ \A c \in 1..3 :
              IsFloorMean(zone.returned.center[c],
                          [i \in 1..Len(zone.returned.points) |-> zone.returned.points[i][c]])
         /\ zone.returned.in_target <=> PassesDualTest(zone.returned.center)

\* C17 witness: the centroid passes the dual test although no collected
\* point does.
C17_CentroidInNoPointIn ==
  /\ pc = "zone_done"
  /\ zone.returned.in_target
  /\ zone.returned.points # << >>
  /\ PointsPassing = {}
  /\ zone.returned.target_probability = 0

\* C17, the other way round: some collected points pass the dual test and
\* the centroid does not.
C17_PointsInCentroidOut ==
  /\ pc = "zone_done"
  /\ ~zone.returned.in_target
  /\ PointsPassing # {}
  /\ zone.returned.target_probability > 0

\* C18: no call changes the caller's parameter record: across every step of
\* every sequence of calls to the five operations params keeps all its fields.
C18_ParamsNeverMutated == [][params' = params]_vars

\* C18 witness: mid-call, the record handed to the simulator differs from
\* the caller's in O_b and in w, the caller's being what the grid was built
\* from.
C18_OverridesWrittenToCopy ==
  /\ pc = "fip_loop"
  /\ zone # None
  /\ zone.i > 1
  /\ test_params.O_b # params.O_b
  /\ test_params.w # params.w
  /\ params.O_b = zone.base_angle
  /\ params.w = zone.base_rpm

\* The launch speed of the caller's record.
LaunchSpeed == Hypot(InitialConditions(params).V_u0, InitialConditions(params).V_n0)

\* C19 (as claimed, for find_impact_point): a step entered at speed exactly
\* zero is integrated with gravity alone and the integration goes on; so a
\* ball released at rest is followed down to the ground, where the call ends
\* with the ground-contact point at distance 0.
C19_ZeroSpeedStepIntegrated ==
  (pc = "fip_done" /\ LaunchSpeed = 0) =>
    /\ hist.steps > 0
    /\ result # None
    /\ result.N = 0
    /\ result.U = 0

\* ------------------------------------------------------------------
\* calculate_simulation for robots placed and turned on the field
\* ------------------------------------------------------------------
\* Poses within the ranges of the input panel: P_x, P_y on the field, O_r
\* between -90 and 90 degrees.
PoseList ==
  << ParamAt(82500000, 100000000, radians(400),
             Param(5000000, radians(800), ZshDefault, 0, 1000, 500)),
     ParamAt(13500000, 18250000, radians(-900), ParamList[1]),
     ParamAt(0, 0, radians(900), ParamList[5]),
     ParamAt(40000000, 150000000, radians(-350), ParamList[8]) >>

NumPoses == 3

InitPose ==
  /\ InitCommon
  /\ variance = DefaultVariance
  /\ params \in { PoseList[i] : i \in 1..NumPoses }
  /\ target_distance = 0

SpecPose == InitPose /\ [][NextSim]_vars

\* Distance in the field plane from the robot to a projected sample.
RecoveredU(xyz, i) == Dist(xyz[1][i] - params.P_x, xyz[2][i] - params.P_y)

\* Rounding allowed between a distance and its recovery: three steps of the
\* resolution of Dist (about 2 mm).
RecoverTolerance == 3 * 16384

\* The projection of track points = [U, N, time] is elementwise and keeps the
\* lengths and the time stamps.
ProjectedElementwise(points, xyz) ==
  /\ Len(xyz) = 4
  /\ Len(xyz[1]) = Len(points[1])
  /\ Len(xyz[2]) = Len(points[1])
  /\ Len(xyz[3]) = Len(points[2])
  /\ xyz[4] = points[3]
  /\ \A i \in 1..Len(points[1]) :
       /\ xyz[1][i] = params.P_x + MulMicro(points[1][i], cos(params.O_r))
       /\ xyz[2][i] = params.P_y + MulMicro(points[1][i], sin(params.O_r))
       /\ xyz[3][i] = points[2][i]

\* Recovering (U, N) from the projected samples gives back N and the size of U.
RecoversAbsU(points, xyz) ==
  \A i \in 1..Len(points[1]) :
    /\ Abs(RecoveredU(xyz, i) - Abs(points[1][i])) <= RecoverTolerance
    /\ xyz[3][i] = points[2][i]

\* Recovering (U, N) from the projected samples gives back N and U itself.
RecoversU(points, xyz) ==
  \A i \in 1..Len(points[1]) :
    /\ Abs(RecoveredU(xyz, i) - points[1][i]) <= RecoverTolerance
    /\ xyz[3][i] = points[2][i]

\* C20 (amended): both tracks returned by calculate_simulation are projected
\* elementwise (X = P_x + U cos O_r, Y = P_y + U sin O_r, Z = N, same lengths,
\* time stamps passed through), and sqrt((X - P_x)^2 + (Y - P_y)^2), Z give
\* back |U| and N: U itself exactly for the samples with U >= 0.
C20_ProjectionRecoversAbsU ==
  pc = "sim_done" =>
    /\ ProjectedElementwise(<<traj.iU_vals, traj.iN_vals, time>>, traj.iPoints_xyz)
    /\ ProjectedElementwise(<<traj.U_vals, traj.N_vals, time>>, traj.frPoints_xyz)
    /\ RecoversAbsU(<<traj.iU_vals, traj.iN_vals, time>>, traj.iPoints_xyz)
    /\ RecoversAbsU(<<traj.U_vals, traj.N_vals, time>>, traj.frPoints_xyz)

\* C20 (as claimed): the recovery gives back U for every sample the
\* integrators produce.
C20_ProjectionRecoversU ==
  pc = "sim_done" =>
    /\ RecoversU(<<traj.iU_vals, traj.iN_vals, time>>, traj.iPoints_xyz)
    /\ RecoversU(<<traj.U_vals, traj.N_vals, time>>, traj.frPoints_xyz)

\* C20 witness: a robot turned away from the field axis whose drag-affected
\* track holds a sample behind the robot (U < 0) as well as samples ahead of it,
\* projected.
C20_TurnedRobotSampleBehind ==
  /\ pc = "sim_done"
  /\ params.O_r # 0
  /\ \E i \in 1..n_steps : traj.U_vals[i] < 0 - RecoverTolerance /\ traj.N_vals[i] > 0
  /\ \E i \in 1..n_steps : traj.U_vals[i] > RecoverTolerance
  /\ Len(traj.frPoints_xyz[1]) = n_steps

\* Consecutive time stamps differ by the integration step dt.
StampsStepByDt(ts) == \A k \in 1..(Len(ts) - 1) : ts[k + 1] - ts[k] = dt

\* The k-th drag-affected sample is the state after k Euler steps of dt: its
\* time stamp is that simulated time.
StampsAreSteppedTime(ts) == \A k \in 1..Len(ts) : ts[k] = k * dt

\* The drag-affected sample stamped t = 0 is the launch state.
ZeroStampIsLaunchState ==
  \A k \in 1..n_steps :
    TrackTimes(traj.frPoints_xyz)[k] = 0 =>
      traj.U_vals[k] = 0 /\ traj.N_vals[k] = params.Z_sh

\* C21 (as claimed): the time stamps returned by calculate_simulation advance
\* by exactly dt = duration / n_steps, the stamp of the k-th drag-affected
\* sample is the time the Euler stepping has simulated for it, and the sample
\* stamped t = 0 is the launch state (U = 0, N = Z_sh).
C21_StampsFollowEulerClock ==
  pc = "sim_done" =>
    /\ StampsStepByDt(TrackTimes(traj.iPoints_xyz))
    /\ StampsStepByDt(TrackTimes(traj.frPoints_xyz))
    /\ StampsAreSteppedTime(TrackTimes(traj.frPoints_xyz))
    /\ ZeroStampIsLaunchState

\* C22 (as claimed): a result returned by simulate_to_distance has a height
\* that is not negative; a step that leaves the ball below ground level is
\* never reported as having reached the target distance.
C22_ReturnedHeightNotNegative ==
  (pc = "std_done" /\ result # None) => result.height >= 0

\* C23 (as claimed): the speed returned by simulate_to_distance is the
\* magnitude of the velocity components V_u, V_n returned in the same result,
\* so that all fields describe the state of one integration step.
C23_VelocityIsMagnitudeOfComponents ==
  (pc = "std_done" /\ result # None) =>
    result.velocity = Hypot(result.V_u, result.V_n)

\* ------------------------------------------------------------------
\* The simulators on shots that are in the air when the 3.0 s run out
\* ------------------------------------------------------------------
\* (parameter record, target distance) pairs the two simulators are called with
BudgetCaseList ==
  << <<Param(3730000, radians(750), ZshDefault, 0, 0, 800), 308250000>>, \* 3730 RPM, 75 degrees; 12.33 m
     <<Param(3690000, radians(780), ZshDefault, 0, 0, 800), 245000000>>, \* 3690 RPM, 78 degrees; 9.8 m
     <<ParamList[4], 500000000>> >>                                      \* never down in time

NumBudgetCases == 2

InitBudget ==
  /\ InitCommon
  /\ variance = DefaultVariance
  /\ \E c \in 1..NumBudgetCases :
       /\ params = BudgetCaseList[c][1]
       /\ target_distance = BudgetCaseList[c][2]

NextBudget == NextFind \/ NextDist

SpecBudget == InitBudget /\ [][NextBudget]_vars

\* t <= max_time
AtMostMaxTime(t) ==
  t.n < MaxTimeTicks \/ (t.n = MaxTimeTicks /\ t.d + MaxTimeSlack <= 0)

\* The time of a result, when the call has returned one.
ReportsTime == pc \in {"fip_done", "std_done"} /\ result # None

\* C24 (as claimed): simulate_to_distance and find_impact_point run at most
\* 3.0 / 0.002 = 1500 integration steps, and a time they report is at most
\* the budget of 3.0 s.
C24_AtMost1500StepsAndBudgetTime ==
  /\ hist.steps <= MaxTimeTicks
  /\ ReportsTime => AtMostMaxTime(result.time)
====
